---- MODULE Spec2Model ----
(***************************************************************************)
(* c2c: directory-tree serializer with a gitignore-style ignore engine.    *)
(* Model of src/src/c2c/c2c.py: GitignoreRule, GitignoreHandler and        *)
(* scan_directory.                                                         *)
(*                                                                         *)
(* Strings are sequences of one-character strings, so that startswith,     *)
(* lstrip, replace, basename and glob matching are computed character by   *)
(* character as Python computes them.  The platform is POSIX: os.sep is    *)
(* "/" and fnmatch does not fold case.  The glob alphabet is "*", "?" and   *)
(* literal characters; "[" never occurs in the strings of the model.       *)
(***************************************************************************)
EXTENDS Naturals, Integers, Sequences, FiniteSets, TLC

VARIABLES
    rules,       \* GitignoreHandler.rules: the ordered rule store
    call,        \* the last direct call of matches / should_ignore and its result
    fs,          \* the directory tree under the scan root, in listing order
    excludes,    \* scan_directory's exclude_patterns argument
    pc,          \* position inside scan_directory
    gitignores,  \* result of find_all_gitignores (directories holding a .gitignore)
    loadIdx,     \* number of ignore files already passed to add_rules_from_file
    loaded,      \* per loaded ignore file: store before and after, failed flag, lines read
    stack,       \* os.walk: directories still to be visited, next first
    cwd,         \* os.walk: directory whose files are being processed
    files,       \* files of cwd not yet processed
    entered,     \* directories os.walk has yielded
    emitted      \* rel_path of every record printed, in output order

vars == <<rules, call, fs, excludes, pc, gitignores, loadIdx, loaded,
          stack, cwd, files, entered, emitted>>

(***************************************************************************)
(* Bounds                                                                  *)
(***************************************************************************)
MaxLines == 2      \* lines of the root ignore file in the generated trees
MaxExcludes == 2   \* CLI exclude patterns in the exclude-order inputs
MaxRules == 2      \* rule store length in the should_ignore specification
MaxDepth == 3      \* path components of a candidate in the matches specification

(***************************************************************************)
(* String primitives (Python str methods, os.path, fnmatch)                *)
(***************************************************************************)
StartsWith(s, p) == Len(s) >= Len(p) /\ SubSeq(s, 1, Len(p)) = p

EndsWith(s, p) == Len(s) >= Len(p) /\ SubSeq(s, Len(s) - Len(p) + 1, Len(s)) = p

Drop(s, n) == SubSeq(s, n + 1, Len(s))

\* str.lstrip('/')
RECURSIVE LStripSlash(_)
LStripSlash(s) ==
    IF s # <<>> /\ Head(s) = "/" THEN LStripSlash(Tail(s)) ELSE s

\* str.rstrip('/')
RECURSIVE RStripSlash(_)
RStripSlash(s) ==
    IF s # <<>> /\ s[Len(s)] = "/" THEN RStripSlash(SubSeq(s, 1, Len(s) - 1)) ELSE s

\* str.strip(): whitespace of the model alphabet is the blank
RECURSIVE LStripBlank(_)
LStripBlank(s) ==
    IF s # <<>> /\ Head(s) = " " THEN LStripBlank(Tail(s)) ELSE s

RECURSIVE RStripBlank(_)
RStripBlank(s) ==
    IF s # <<>> /\ s[Len(s)] = " " THEN RStripBlank(SubSeq(s, 1, Len(s) - 1)) ELSE s

Strip(s) == RStripBlank(LStripBlank(s))

StarStarSlash == <<"*", "*", "/">>

\* line.replace('**/', ''): one left-to-right pass over non-overlapping occurrences
RECURSIVE RemoveStarStarSlash(_)
RemoveStarStarSlash(s) ==
    IF Len(s) < 3 THEN s
    ELSE IF StartsWith(s, StarStarSlash) THEN RemoveStarStarSlash(Drop(s, 3))
    ELSE <<Head(s)>> \o RemoveStarStarSlash(Tail(s))

\* os.path.basename: what follows the last "/"
RECURSIVE Basename(_)
Basename(p) ==
    IF p = <<>> THEN <<>>
    ELSE IF p[Len(p)] = "/" THEN <<>>
    ELSE Basename(SubSeq(p, 1, Len(p) - 1)) \o <<p[Len(p)]>>

\* fnmatch.fnmatch on POSIX: "*" is any run of characters ("/" included),
\* "?" is any one character, anything else is literal; the whole name must match
RECURSIVE fnmatch(_, _)
fnmatch(name, pat) ==
    IF pat = <<>> THEN name = <<>>
    ELSE IF Head(pat) = "*"
         THEN fnmatch(name, Tail(pat)) \/ (name # <<>> /\ fnmatch(Tail(name), pat))
         ELSE /\ name # <<>>
              /\ (Head(pat) = "?" \/ Head(pat) = Head(name))
              /\ fnmatch(Tail(name), Tail(pat))

\* "/".join(parts)
RECURSIVE Join(_)
Join(parts) ==
    IF parts = <<>> THEN <<>>
    ELSE IF Len(parts) = 1 THEN parts[1]
    ELSE parts[1] \o <<"/">> \o Join(Tail(parts))

Contains(s, sub) ==
    \E i \in 1..(Len(s) - Len(sub) + 1) : SubSeq(s, i, i + Len(sub) - 1) = sub

IsPrefix(s, t) == Len(s) <= Len(t) /\ SubSeq(t, 1, Len(s)) = s

(***************************************************************************)
(* GitignoreRule                                                           *)
(***************************************************************************)
Dot == <<".">>

\* dataclass constructor followed by __post_init__
GitignoreRule(pattern, base_dir) ==
    IF StartsWith(pattern, <<"!">>)
    THEN [pattern |-> Tail(pattern), base_dir |-> base_dir, is_negation |-> TRUE]
    ELSE [pattern |-> pattern, base_dir |-> base_dir, is_negation |-> FALSE]

\* path.replace(os.sep, '/') is the identity on POSIX; one leading "./" is removed
NormalizePath(path) ==
    IF StartsWith(path, <<".", "/">>) THEN Drop(path, 2) ELSE path

\* faulty scope test: a bare string prefix, without the "/" boundary
ScopeOk_BarePrefix(base_dir, path) ==
    base_dir = Dot \/ StartsWith(path, base_dir)

\* the scope test of a rule of a subdirectory's ignore file
ScopeOk(base_dir, path) ==
    base_dir = Dot \/ StartsWith(path, base_dir \o <<"/">>) \/ path = base_dir

RelToBase(base_dir, path) ==
    IF base_dir # Dot
    THEN (IF path # base_dir THEN Drop(path, Len(base_dir) + 1) ELSE <<>>)
    ELSE path

\* faulty anchored match: falls back to the basename
AnchoredMatch_BasenameFallback(pattern, rel_to_base) ==
    \/ fnmatch(rel_to_base, LStripSlash(pattern))
    \/ fnmatch(Basename(rel_to_base), LStripSlash(pattern))

\* pattern starting with "/"
AnchoredMatch(pattern, rel_to_base) ==
    fnmatch(rel_to_base, LStripSlash(pattern))

\* faulty unanchored match: a directory-only pattern is stripped but is_dir is not tested
UnanchoredMatch_AnyKind(pattern, path, rel_to_base, is_dir) ==
    LET pat == IF EndsWith(pattern, <<"/">>) THEN RStripSlash(pattern) ELSE pattern
    IN  \/ fnmatch(Basename(path), pat)
        \/ fnmatch(rel_to_base, pat)
        \/ fnmatch(rel_to_base, StarStarSlash \o pat)

\* pattern not starting with "/"
UnanchoredMatch(pattern, path, rel_to_base, is_dir) ==
    IF EndsWith(pattern, <<"/">>) /\ ~is_dir THEN FALSE
    ELSE LET pat == IF EndsWith(pattern, <<"/">>) THEN RStripSlash(pattern) ELSE pattern
         IN  \/ fnmatch(Basename(path), pat)
             \/ fnmatch(rel_to_base, pat)
             \/ fnmatch(rel_to_base, StarStarSlash \o pat)

matches(rule, path0, is_dir) ==
    LET path == NormalizePath(path0) IN
    IF rule.pattern = <<>> THEN FALSE
    ELSE IF ~ScopeOk(rule.base_dir, path) THEN FALSE
    ELSE LET rel_to_base == RelToBase(rule.base_dir, path) IN
         IF StartsWith(rule.pattern, <<"/">>)
         THEN AnchoredMatch(rule.pattern, rel_to_base)
         ELSE UnanchoredMatch(rule.pattern, path, rel_to_base, is_dir)

(***************************************************************************)
(* GitignoreHandler                                                        *)
(***************************************************************************)
\* faulty loop body: a matching negation rule ignores like a normal rule
Verdict_NegationIgnores(ignored, rule, path, is_dir) ==
    IF matches(rule, path, is_dir) THEN TRUE ELSE ignored

\* one iteration of the loop of should_ignore
Verdict(ignored, rule, path, is_dir) ==
    IF matches(rule, path, is_dir)
    THEN (IF rule.is_negation THEN FALSE ELSE TRUE)
    ELSE ignored

RECURSIVE ShouldIgnoreFrom(_, _, _, _)
ShouldIgnoreFrom(ignored, rs, path, is_dir) ==
    IF rs = <<>> THEN ignored
    ELSE ShouldIgnoreFrom(Verdict(ignored, Head(rs), path, is_dir), Tail(rs), path, is_dir)

should_ignore(rs, path, is_dir) == ShouldIgnoreFrom(FALSE, rs, path, is_dir)

(***************************************************************************)
(* The directory tree                                                      *)
(*                                                                         *)
(* A tree is a sequence of nodes in directory-listing order.  A node's     *)
(* path is the sequence of its components below the scan root.  kind says  *)
(* what reading the file does: "text" decodes, "binary" fails to decode in *)
(* the first 1024 characters, "readfail" fails after the part the sniff    *)
(* reads (late decode error, I/O error, deletion after the sniff),         *)
(* "openfail" cannot be opened.  For an ignore file, lines are its lines   *)
(* and failAfter is the number of lines a "readfail" file yields before    *)
(* the read raises.  A "binary" ignore file yields some prefix of its      *)
(* lines before the read raises: none when the undecodable bytes are met   *)
(* in the first buffer, all complete lines when the file ends inside a     *)
(* multi-byte character; kind does not tell which, so every prefix is a    *)
(* possible outcome.                                                       *)
(***************************************************************************)
N_git == <<".", "g", "i", "t">>
N_gitignore == <<".", "g", "i", "t", "i", "g", "n", "o", "r", "e">>
N_src == <<"s", "r", "c">>
N_docs == <<"d", "o", "c", "s">>
N_sub == <<"s", "u", "b">>
N_main == <<"m", ".", "p", "y">>
N_util == <<"u", ".", "p", "y">>
N_readme == <<"r", ".", "t", "x", "t">>
N_notes == <<"n", ".", "t", "x", "t">>
N_important == <<"i", ".", "t", "x", "t">>
N_a == <<"a", ".", "t", "x", "t">>
N_config == <<"c">>

Dir(path) ==
    [path |-> path, type |-> "dir", kind |-> "dir", lines |-> <<>>, failAfter |-> 0]

File(path, kind) ==
    [path |-> path, type |-> "file", kind |-> kind, lines |-> <<>>, failAfter |-> 0]

IgnoreFile(dir, lines, kind, failAfter) ==
    [path |-> dir \o <<N_gitignore>>, type |-> "file", kind |-> kind,
     lines |-> lines, failAfter |-> failAfter]

Range(s) == {s[i] : i \in 1..Len(s)}

NodeAt(tree, path) == CHOOSE n \in Range(tree) : n.path = path

\* os.scandir of directory d: the names of its entries of one type, in listing order
Listing(tree, d, type) ==
    LET IsChild(n) == /\ n.type = type
                      /\ Len(n.path) = Len(d) + 1
                      /\ SubSeq(n.path, 1, Len(d)) = d
        sel == SelectSeq(tree, IsChild)
    IN  [i \in 1..Len(sel) |-> sel[i].path[Len(d) + 1]]

ChildPaths(d, names) == [i \in 1..Len(names) |-> d \o <<names[i]>>]

\* os.path.relpath(path, directory) with "/" separators; the root itself is "."
RelPath(path) == IF path = <<>> THEN Dot ELSE Join(path)

(***************************************************************************)
(* add_rules_from_file, find_all_gitignores                                *)
(***************************************************************************)
\* the possible sequences of lines the for loop over the open file receives
\* before it ends or raises
LinesRead(node) ==
    IF node.kind = "openfail" THEN {<<>>}
    ELSE IF node.kind = "readfail" THEN {SubSeq(node.lines, 1, node.failAfter)}
    ELSE IF node.kind = "binary" THEN {SubSeq(node.lines, 1, k) : k \in 0..Len(node.lines)}
    ELSE {node.lines}

\* the except clause is reached: open or a read raised
LoadFails(node) == node.kind \in {"openfail", "binary", "readfail"}

\* body of the for loop of add_rules_from_file, over the lines read
RECURSIVE RulesOfLines(_, _)
RulesOfLines(lines, base_dir) ==
    IF lines = <<>> THEN <<>>
    ELSE LET line == Strip(Head(lines)) IN
         (IF line # <<>> /\ ~StartsWith(line, <<"#">>)
          THEN <<GitignoreRule(RemoveStarStarSlash(line), base_dir)>>
          ELSE <<>>)
         \o RulesOfLines(Tail(lines), base_dir)

\* add_rules_from_file on the ignore file of directory dir, the loop having
\* received the lines read
add_rules_from_file(rs, dir, read) ==
    rs \o RulesOfLines(read, RelPath(dir))

\* os.walk(start_dir), top-down, nothing pruned: every directory, parents first
RECURSIVE WalkAll(_, _)
WalkAll(tree, todo) ==
    IF todo = <<>> THEN <<>>
    ELSE LET d == Head(todo) IN
         <<d>> \o WalkAll(tree, ChildPaths(d, Listing(tree, d, "dir")) \o Tail(todo))

HasGitignore(tree, d) == \E i \in 1..Len(Listing(tree, d, "file")) :
                            Listing(tree, d, "file")[i] = N_gitignore

find_all_gitignores(tree) ==
    LET Holds(d) == HasGitignore(tree, d)
    IN  SelectSeq(WalkAll(tree, << <<>> >>), Holds)

(***************************************************************************)
(* scan_directory                                                          *)
(***************************************************************************)
\* faulty exclude loop: the patterns are appended last first
ExcludeRules_Reversed(patterns) ==
    [i \in 1..Len(patterns) |-> GitignoreRule(patterns[Len(patterns) + 1 - i], Dot)]

\* for pattern in exclude_patterns: rules.append(GitignoreRule(pattern, '.'))
ExcludeRules(patterns) == [i \in 1..Len(patterns) |-> GitignoreRule(patterns[i], Dot)]

\* faulty walk: .git is left in dirs
RemoveGit_Kept(dirs) == dirs

\* if '.git' in dirs: dirs.remove('.git')
RemoveGit(dirs) ==
    LET NotGit(n) == n # N_git IN SelectSeq(dirs, NotGit)

\* faulty walk: ignored directories are not removed from dirs
PruneDirs_NoPruning(rs, root, dirs) == dirs

\* dirs[:] = [d for d in dirs if not should_ignore(join(rel_root, d), is_dir=True)]
PruneDirs(rs, root, dirs) ==
    LET Kept(n) == ~should_ignore(rs, Join(root \o <<n>>), TRUE) IN SelectSeq(dirs, Kept)

\* is_binary_file: "False", "True", or "raises" when open fails
is_binary_file(node) ==
    IF node.kind = "openfail" THEN "raises"
    ELSE IF node.kind = "binary" THEN "True"
    ELSE "False"

\* the try block that reads the whole file: TRUE when the record is printed
ReadSucceeds(node) == node.kind = "text"

\* the body of "for file in files" for one file: what happens to it
FileOutcome(rs, tree, path) ==
    IF should_ignore(rs, RelPath(path), FALSE) THEN "ignored"
    ELSE IF is_binary_file(NodeAt(tree, path)) = "raises" THEN "raise"
    ELSE IF is_binary_file(NodeAt(tree, path)) = "True" THEN "binary"
    ELSE IF ReadSucceeds(NodeAt(tree, path)) THEN "emit"
    ELSE "error"

AddExcludes ==
    /\ pc = "excludes"
    /\ rules' = rules \o ExcludeRules(excludes)
    /\ pc' = "discover"
    /\ UNCHANGED <<call, fs, excludes, gitignores, loadIdx, loaded,
                   stack, cwd, files, entered, emitted>>

Discover ==
    /\ pc = "discover"
    /\ gitignores' = find_all_gitignores(fs)
    /\ pc' = "load"
    /\ UNCHANGED <<rules, call, fs, excludes, loadIdx, loaded,
                   stack, cwd, files, entered, emitted>>

LoadIgnoreFile ==
    /\ pc = "load"
    /\ loadIdx < Len(gitignores)
    /\ LET dir == gitignores[loadIdx + 1]
           node == NodeAt(fs, dir \o <<N_gitignore>>)
       IN  \E read \in LinesRead(node) :
               /\ rules' = add_rules_from_file(rules, dir, read)
               /\ loaded' = Append(loaded, [dir |-> dir, before |-> rules, after |-> rules',
                                            failed |-> LoadFails(node), read |-> read])
    /\ loadIdx' = loadIdx + 1
    /\ UNCHANGED <<call, fs, excludes, pc, gitignores,
                   stack, cwd, files, entered, emitted>>

StartWalk ==
    /\ pc = "load"
    /\ loadIdx = Len(gitignores)
    /\ pc' = "walk"
    /\ stack' = << <<>> >>
    /\ UNCHANGED <<rules, call, fs, excludes, gitignores, loadIdx, loaded,
                   cwd, files, entered, emitted>>

VisitDir ==
    /\ pc = "walk"
    /\ files = <<>>
    /\ stack # <<>>
    /\ LET root == Head(stack)
           dirs == PruneDirs(rules, root, RemoveGit(Listing(fs, root, "dir")))
       IN  /\ cwd' = root
           /\ entered' = entered \cup {root}
           /\ files' = Listing(fs, root, "file")
           /\ stack' = ChildPaths(root, dirs) \o Tail(stack)
    /\ UNCHANGED <<rules, call, fs, excludes, pc, gitignores, loadIdx, loaded, emitted>>

ProcessFile ==
    /\ pc = "walk"
    /\ files # <<>>
    /\ LET path == cwd \o <<Head(files)>>
           outcome == FileOutcome(rules, fs, path)
       IN  /\ emitted' = IF outcome = "emit" THEN Append(emitted, RelPath(path)) ELSE emitted
           /\ pc' = IF outcome = "raise" THEN "raised" ELSE pc
    /\ files' = Tail(files)
    /\ UNCHANGED <<rules, call, fs, excludes, gitignores, loadIdx, loaded,
                   stack, cwd, entered>>

Finish ==
    /\ pc = "walk"
    /\ files = <<>>
    /\ stack = <<>>
    /\ pc' = "done"
    /\ UNCHANGED <<rules, call, fs, excludes, gitignores, loadIdx, loaded,
                   stack, cwd, files, entered, emitted>>

(***************************************************************************)
(* Inputs of scan_directory: trees and exclude patterns                    *)
(***************************************************************************)
L_txt == <<"*", ".", "t", "x", "t">>
L_notDocsTxt == <<"!", "d", "o", "c", "s", "/", "*", ".", "t", "x", "t">>
L_notImportant == <<"!", "i", ".", "t", "x", "t">>
L_srcDir == <<"s", "r", "c", "/">>
L_notGit == <<"!", ".", "g", "i", "t">>
L_anySub == <<"*", "*", "/", "s", "u", "b">>
L_comment == <<" ", "#", "x">>
L_blank == <<" ">>
L_docs == <<"d", "o", "c", "s">>

BoundedSeqs(S, n) == UNION {[1..k -> S] : k \in 0..n}

RootLinePool == {L_txt, L_notImportant, L_srcDir, L_notGit, L_anySub, L_comment}

ExcludePool == {N_git, L_docs, L_anySub}

FileKinds == {"text", "binary", "readfail", "openfail"}

\* the general tree: ignore files in the root and in src, .git directories at
\* two depths, text files at three depths
Tree(rootLines, rootKind, rootFail, subKind, subFail, notesKind, mainKind) ==
    << IgnoreFile(<<>>, rootLines, rootKind, rootFail),
       File(<<N_notes>>, notesKind),
       Dir(<<N_git>>),
       File(<<N_git, N_config>>, "text"),
       Dir(<<N_src>>),
       IgnoreFile(<<N_src>>, <<L_notImportant, L_blank>>, subKind, subFail),
       File(<<N_src, N_important>>, "text"),
       File(<<N_src, N_main>>, mainKind),
       Dir(<<N_src, N_sub>>),
       File(<<N_src, N_sub, N_a>>, "text"),
       Dir(<<N_docs>>),
       Dir(<<N_docs, N_git>>),
       File(<<N_docs, N_git, N_config>>, "text"),
       File(<<N_docs, N_readme>>, "text") >>

\* the tree of the end-to-end scenario, with or without a top-level notes file
ExampleTree(withNotes) ==
    << IgnoreFile(<<>>, <<L_txt, L_notDocsTxt>>, "text", 0) >>
    \o (IF withNotes THEN << File(<<N_notes>>, "text") >> ELSE <<>>)
    \o << Dir(<<N_src>>),
          File(<<N_src, N_main>>, "text"),
          File(<<N_src, N_util>>, "text"),
          Dir(<<N_docs>>),
          File(<<N_docs, N_readme>>, "text") >>

\* every rule combination on readable files, with no or one exclude pattern
RuleInputs ==
    { <<Tree(ls, "text", 0, "text", 0, "text", "text"), ex>> :
        ls \in BoundedSeqs(RootLinePool, MaxLines),
        ex \in {<<>>} \cup {<<e>> : e \in ExcludePool} }

OrderExcludePool == {N_git, L_docs, L_anySub, L_notGit, L_notImportant}

\* every sequence of exclude patterns, plain and negated, repetitions included,
\* on the tree with the two ignore files
OrderInputs ==
    { <<Tree(<<L_txt>>, "text", 0, "text", 0, "text", "text"), ex>> :
        ex \in BoundedSeqs(OrderExcludePool, MaxExcludes) }

IgnoreFileStates(n) ==
    {<<"text", 0>>, <<"openfail", 0>>, <<"binary", 0>>} \cup {<<"readfail", k>> : k \in 0..n}

\* every failure combination under one rule set
ErrorInputs ==
    { <<Tree(<<L_anySub, L_notGit>>, r[1], r[2], s[1], s[2], nk, mk), <<N_git>>>> :
        r \in IgnoreFileStates(2), s \in IgnoreFileStates(2),
        nk \in FileKinds, mk \in FileKinds }

ExampleInputs == { <<ExampleTree(b), <<N_git>>>> : b \in BOOLEAN }

ScanInputs == RuleInputs \cup OrderInputs \cup ErrorInputs \cup ExampleInputs

NoCall == [op |-> "none"]

Init ==
    /\ \E in \in ScanInputs : fs = in[1] /\ excludes = in[2]
    /\ rules = <<>>
    /\ call = NoCall
    /\ pc = "excludes"
    /\ gitignores = <<>>
    /\ loadIdx = 0
    /\ loaded = <<>>
    /\ stack = <<>>
    /\ cwd = <<>>
    /\ files = <<>>
    /\ entered = {}
    /\ emitted = <<>>

Next ==
    \/ AddExcludes
    \/ Discover
    \/ LoadIgnoreFile
    \/ StartWalk
    \/ VisitDir
    \/ ProcessFile
    \/ Finish

Spec == Init /\ [][Next]_vars

TypeOK ==
    /\ pc \in {"excludes", "discover", "load", "walk", "done", "raised"}
    /\ loadIdx \in 0..Len(gitignores)
    /\ Len(loaded) = loadIdx

(***************************************************************************)
(* Direct calls of GitignoreRule.matches: one rule, every candidate        *)
(***************************************************************************)
N_src2 == <<"s", "r", "c", "2">>
N_p == <<"p">>

Q_txt == <<"*", ".", "t", "x", "t">>
Q_notTxt == <<"!", "*", ".", "t", "x", "t">>
Q_a == <<"a", ".", "t", "x", "t">>
Q_rootA == <<"/", "a", ".", "t", "x", "t">>
Q_rootP == <<"/", "p">>
Q_rootRootP == <<"/", "/", "p">>
Q_rootTxt == <<"/", "*", ".", "t", "x", "t">>
Q_subDir == <<"s", "u", "b", "/">>
Q_subDirDir == <<"s", "u", "b", "/", "/">>
Q_notSubDir == <<"!", "s", "u", "b", "/">>
Q_sDir == <<"s", "*", "/">>
Q_rootSubDir == <<"/", "s", "u", "b", "/">>
Q_bang == <<"!">>
Q_srcA == <<"s", "r", "c", "/", "a", ".", "t", "x", "t">>
Q_star == <<"*">>
Q_one == <<"?">>
Q_src == <<"s", "r", "c">>
Q_rootSrcP == <<"/", "s", "r", "c", "/", "p">>
Q_anyP == <<"*", "*", "/", "p">>
Q_root == <<"/">>

PatternPool ==
    {<<>>, Q_txt, Q_notTxt, Q_a, Q_rootA, Q_rootP, Q_rootRootP, Q_rootTxt,
     Q_subDir, Q_subDirDir, Q_notSubDir, Q_sDir, Q_rootSubDir, Q_bang, Q_srcA,
     Q_star, Q_one, Q_src, Q_rootSrcP, Q_anyP, Q_root}

ScopePool == {Dot, N_src, Join(<<N_src, N_sub>>)}

NamePool == {N_src, N_src2, N_sub, N_p, N_a}

\* candidate paths: up to MaxDepth components, with or without a leading "./"
PlainPaths == {Join(c) : c \in UNION {[1..k -> NamePool] : k \in 1..MaxDepth}}

CandidatePaths == PlainPaths \cup {<<".", "/">> \o q : q \in PlainPaths}

Idle ==
    /\ fs = <<>>
    /\ excludes = <<>>
    /\ pc = "idle"
    /\ gitignores = <<>>
    /\ loadIdx = 0
    /\ loaded = <<>>
    /\ stack = <<>>
    /\ cwd = <<>>
    /\ files = <<>>
    /\ entered = {}
    /\ emitted = <<>>

IdleUnchanged ==
    UNCHANGED <<fs, excludes, pc, gitignores, loadIdx, loaded,
                stack, cwd, files, entered, emitted>>

\* the inputs: a constructed rule and the arguments of one call of matches
InitRule ==
    /\ \E pattern \in PatternPool, base_dir \in ScopePool :
          rules = <<GitignoreRule(pattern, base_dir)>>
    /\ \E path \in CandidatePaths, is_dir \in BOOLEAN :
          call = [op |-> "pending", path |-> path, is_dir |-> is_dir, result |-> FALSE]
    /\ Idle

MatchesCall ==
    /\ call.op = "pending"
    /\ call' = [call EXCEPT !.op = "matches",
                            !.result = matches(rules[1], call.path, call.is_dir)]
    /\ UNCHANGED rules
    /\ IdleUnchanged

NextRule == MatchesCall

SpecRule == InitRule /\ [][NextRule]_vars

(***************************************************************************)
(* Direct calls of GitignoreHandler.should_ignore on a store built by      *)
(* appending rules                                                         *)
(***************************************************************************)
Q_important == <<"i", ".", "t", "x", "t">>
Q_rootImportant == <<"/", "i", ".", "t", "x", "t">>
Q_other == <<"t", ".", "t", "x", "t">>

StoreLinePool == {L_txt, L_notImportant, Q_notTxt, Q_important, L_srcDir, Q_rootImportant}

StoreScopePool == {Dot, N_src}

StorePaths == {Q_important, Q_other, Join(<<N_src, N_important>>), N_src, N_main}

InitStore ==
    /\ rules = <<>>
    /\ call = NoCall
    /\ Idle

\* handler.rules.append(GitignoreRule(line, base_dir))
AppendRule ==
    /\ Len(rules) < MaxRules
    /\ \E line \in StoreLinePool, base_dir \in StoreScopePool :
          rules' = Append(rules, GitignoreRule(line, base_dir))
    /\ call' = NoCall
    /\ IdleUnchanged

ShouldIgnoreCall ==
    /\ call.op = "none"
    /\ \E path \in StorePaths, is_dir \in BOOLEAN :
          call' = [op |-> "should_ignore", path |-> path, is_dir |-> is_dir,
                   result |-> should_ignore(rules, path, is_dir)]
    /\ UNCHANGED rules
    /\ IdleUnchanged

NextStore == AppendRule \/ ShouldIgnoreCall

SpecStore == InitStore /\ [][NextStore]_vars

(***************************************************************************)
(* Properties                                                              *)
(***************************************************************************)
DirPaths == {n.path : n \in {m \in Range(fs) : m.type = "dir"}}

FilePaths == {n.path : n \in {m \in Range(fs) : m.type = "file"}}

Walking == pc \in {"walk", "done", "raised"}

Below(d, p) == Len(p) > Len(d) /\ SubSeq(p, 1, Len(d)) = d

Parent(p) == SubSeq(p, 1, Len(p) - 1)

NoDuplicates(q) == \A i, j \in 1..Len(q) : i # j => q[i] # q[j]

EmittedBelow(d) ==
    \E i \in 1..Len(emitted) : StartsWith(emitted[i], Join(d) \o <<"/">>)

EnteredAtOrBelow(d) == \E e \in entered : e = d \/ Below(d, e)

\* C1: pruning. Once the walk has started, a directory for which
\* should_ignore(d, is_dir = TRUE) holds is never entered, no directory below it
\* is entered and no file below it is emitted, whatever should_ignore says of
\* the files below it.
C1_Pruning ==
    Walking =>
        \A d \in DirPaths :
            should_ignore(rules, Join(d), TRUE)
                => ~EnteredAtOrBelow(d) /\ ~EmittedBelow(d)

\* a finished walk that reached an ignored directory holding its own ignore
\* file and a file that a negation rule unignores
C1_Witness ==
    /\ pc = "done"
    /\ \E d \in DirPaths :
          /\ should_ignore(rules, Join(d), TRUE)
          /\ Parent(d) \in entered
          /\ \E i \in 1..Len(rules) : rules[i].base_dir = Join(d)
          /\ \E f \in FilePaths :
                /\ Below(d, f)
                /\ ~should_ignore(rules, Join(f), FALSE)
                /\ \E i \in 1..Len(rules) :
                      rules[i].is_negation /\ matches(rules[i], Join(f), FALSE)

MatchingRules(path, is_dir) == {i \in 1..Len(rules) : matches(rules[i], path, is_dir)}

Last(S) == CHOOSE m \in S : \A x \in S : x <= m

TxtThenNotImportant == <<GitignoreRule(L_txt, Dot), GitignoreRule(L_notImportant, Dot)>>

NotImportantThenTxt == <<GitignoreRule(L_notImportant, Dot), GitignoreRule(L_txt, Dot)>>

\* C2: last match wins. should_ignore returns TRUE exactly when some rule of
\* the store matches the candidate and the last matching rule in store order is
\* not a negation rule; [*.txt, !i.txt] keeps i.txt, the reversed store ignores it.
C2_LastMatchWins ==
    call.op = "should_ignore" =>
        /\ call.result =
              (/\ MatchingRules(call.path, call.is_dir) # {}
               /\ ~rules[Last(MatchingRules(call.path, call.is_dir))].is_negation)
        /\ (rules = TxtThenNotImportant /\ call.path = Q_important => ~call.result)
        /\ (rules = NotImportantThenTxt /\ call.path = Q_important => call.result)

C2_Witness ==
    /\ call.op = "should_ignore"
    /\ rules = TxtThenNotImportant
    /\ call.path = Q_important
    /\ ~call.is_dir
    /\ ~call.result

\* the four conditions of the walk output characterisation
Kept(f) ==
    /\ \A k \in 1..(Len(f) - 1) : f[k] # N_git
    /\ \A k \in 1..(Len(f) - 1) : ~should_ignore(rules, Join(SubSeq(f, 1, k)), TRUE)
    /\ ~should_ignore(rules, Join(f), FALSE)
    /\ NodeAt(fs, f).kind = "text"

OutputCharacterised ==
    pc = "done" =>
        /\ NoDuplicates(emitted)
        /\ Range(emitted) = {Join(f) : f \in {g \in FilePaths : Kept(g)}}

ExampleRun == pc = "done" /\ fs \in {ExampleTree(TRUE), ExampleTree(FALSE)}

ExampleThree ==
    {Join(<<N_src, N_main>>), Join(<<N_src, N_util>>), Join(<<N_docs, N_readme>>)}

\* C3 as stated: the output of a finished scan is characterised by the four
\* conditions, and in the end-to-end scenario it is exactly the three files
\* src/m.py, src/u.py and docs/r.txt.
C3_OutputAsStated ==
    /\ OutputCharacterised
    /\ (ExampleRun => Range(emitted) = ExampleThree)

\* C3: the output of a finished scan is, once each and root-relative, the files
\* with no ancestor named .git, no ignored ancestor, not ignored themselves and
\* readable as text; in the end-to-end scenario these are the three files and
\* the root ignore file itself, and a top-level notes file is not among them.
C3_OutputCharacterisation ==
    /\ OutputCharacterised
    /\ (ExampleRun => Range(emitted) = ExampleThree \cup {N_gitignore})

C3_Witness ==
    /\ pc = "done"
    /\ fs = ExampleTree(TRUE)
    /\ Len(emitted) = 4

\* kept by the ignore filter and reached by the walk, readable or not
PassedFilter(f) ==
    /\ \A k \in 1..(Len(f) - 1) : f[k] # N_git
    /\ \A k \in 1..(Len(f) - 1) : ~should_ignore(rules, Join(SubSeq(f, 1, k)), TRUE)
    /\ ~should_ignore(rules, Join(f), FALSE)

\* C4: per-file error isolation. A file that passed the filter and cannot be
\* opened or read is skipped alone: scan_directory never raises, and the walk
\* ends having emitted every readable kept file.
C4_PerFileErrorIsolation ==
    /\ pc # "raised"
    /\ (pc = "done" =>
           \A f \in FilePaths :
               PassedFilter(f) /\ NodeAt(fs, f).kind = "text"
                   => \E i \in 1..Len(emitted) : emitted[i] = Join(f))

\* C5: ignore-file error isolation. After a load that failed, at open or while
\* the lines were read, the store equals the store before that load.
C5_IgnoreFileErrorIsolation ==
    \A i \in 1..Len(loaded) : loaded[i].failed => loaded[i].after = loaded[i].before

OutsideScope(scope, path) == path # scope /\ ~StartsWith(path, scope \o <<"/">>)

UnderScope(scope, path) == scope = Dot \/ ~OutsideScope(scope, path)

TxtInSrc == GitignoreRule(Q_txt, N_src)

ScopeExamples ==
    rules[1] = TxtInSrc =>
        /\ (call.path = Join(<<N_src2, N_a>>) => ~call.result)
        /\ (call.path = N_a => ~call.result)
        /\ (call.path = Join(<<N_src, N_a>>) => call.result)
        /\ (call.path = Join(<<N_src, N_sub, N_a>>) => call.result)

\* C6 as stated: a rule with a scope other than "." matches no path that is
\* neither equal to the scope nor starts with the scope followed by "/".
C6_ScopeAsStated ==
    call.op = "matches" =>
        /\ (rules[1].base_dir # Dot /\ OutsideScope(rules[1].base_dir, call.path)
               => ~call.result)
        /\ ScopeExamples

\* C6: scope isolation. A rule with a scope other than "." matches no path
\* that, once one leading "./" is removed, is neither equal to the scope nor
\* starts with the scope followed by "/"; scope src does not match src2/a.txt
\* or a.txt, and matches src/a.txt and src/sub/a.txt.
C6_ScopeIsolation ==
    call.op = "matches" =>
        /\ (rules[1].base_dir # Dot
              /\ OutsideScope(rules[1].base_dir, NormalizePath(call.path))
               => ~call.result)
        /\ ScopeExamples

C6_Witness ==
    /\ call.op = "matches"
    /\ rules[1] = TxtInSrc
    /\ call.path = Join(<<N_src2, N_a>>)
    /\ ~call.result

DirectoryOnly(rule) ==
    ~StartsWith(rule.pattern, <<"/">>) /\ EndsWith(rule.pattern, <<"/">>)

\* C7: directory-only patterns. A rule whose unanchored pattern ends with "/"
\* matches no file candidate and leaves the running verdict of should_ignore
\* on a file as it was; it matches a directory candidate under its scope whose
\* last component glob-matches the pattern without its trailing slash.
C7_DirectoryOnly ==
    call.op = "matches" /\ DirectoryOnly(rules[1]) =>
        LET rule == rules[1]
            path == NormalizePath(call.path)
        IN  /\ (~call.is_dir =>
                   /\ ~call.result
                   /\ \A v \in BOOLEAN : Verdict(v, rule, call.path, FALSE) = v)
            /\ (/\ call.is_dir
                /\ UnderScope(rule.base_dir, path)
                /\ fnmatch(Basename(path), SubSeq(rule.pattern, 1, Len(rule.pattern) - 1))
                => call.result)

C7_Witness ==
    /\ call.op = "matches"
    /\ rules[1] = GitignoreRule(Q_subDir, Dot)
    /\ call.path = Join(<<N_src, N_sub>>)
    /\ call.is_dir
    /\ call.result

RootP == GitignoreRule(Q_rootP, Dot)

AnchoredExamples ==
    rules[1] = RootP =>
        /\ (NormalizePath(call.path) = N_p => call.result)
        /\ (EndsWith(NormalizePath(call.path), <<"/">> \o N_p) => ~call.result)

\* C8 as stated: a rule whose pattern starts with "/" matches exactly when the
\* path relative to the scope glob-matches the pattern without its first "/".
C8_AnchoredAsStated ==
    call.op = "matches" /\ StartsWith(rules[1].pattern, <<"/">>) =>
        LET rule == rules[1]
            path == NormalizePath(call.path)
        IN  /\ call.result =
                  (/\ UnderScope(rule.base_dir, path)
                   /\ fnmatch(RelToBase(rule.base_dir, path), Tail(rule.pattern)))
            /\ AnchoredExamples

\* C8: root-anchored patterns. A rule whose pattern starts with "/" matches
\* exactly when the path relative to the scope, as a whole, glob-matches the
\* pattern with all its leading slashes removed; there is no basename and no
\* any-depth fallback: "/p" with scope "." matches p and no x/p.
C8_Anchored ==
    call.op = "matches" /\ StartsWith(rules[1].pattern, <<"/">>) =>
        LET rule == rules[1]
            path == NormalizePath(call.path)
        IN  /\ call.result =
                  (/\ UnderScope(rule.base_dir, path)
                   /\ fnmatch(RelToBase(rule.base_dir, path), LStripSlash(rule.pattern)))
            /\ AnchoredExamples

C8_Witness ==
    /\ call.op = "matches"
    /\ rules[1] = RootP
    /\ call.path = Join(<<N_src, N_p>>)
    /\ ~call.result

\* C9: rule invariant. No stored pattern starts with "!" and no stored pattern
\* contains "**/".
C9_RuleInvariant ==
    \A i \in 1..Len(rules) :
        /\ ~StartsWith(rules[i].pattern, <<"!">>)
        /\ ~Contains(rules[i].pattern, StarStarSlash)

\* the rules the discovered ignore files 1..n contributed, in discovery order
RECURSIVE LoadedRules(_)
LoadedRules(n) ==
    IF n = 0 THEN <<>>
    ELSE LoadedRules(n - 1)
         \o RulesOfLines(loaded[n].read, RelPath(gitignores[n]))

\* what the loop received from the n-th ignore file: all its lines when the
\* load did not fail; none when the file could not be opened; the lines before
\* the failing read otherwise, in file order
ReadInFileOrder(n) ==
    LET node == NodeAt(fs, gitignores[n] \o <<N_gitignore>>)
    IN  /\ loaded[n].dir = gitignores[n]
        /\ IsPrefix(loaded[n].read, node.lines)
        /\ (~loaded[n].failed => loaded[n].read = node.lines)
        /\ (node.kind = "openfail" => loaded[n].read = <<>>)
        /\ (node.kind = "readfail" => Len(loaded[n].read) = node.failAfter)

\* the i-th rule of the store is the i-th exclude pattern given: its pattern
\* without one leading "!", negated exactly when it had one, scope "."
ExcludesInOrderGiven ==
    /\ Len(rules) >= Len(excludes)
    /\ \A i \in 1..Len(excludes) :
          LET negated == excludes[i] # <<>> /\ Head(excludes[i]) = "!"
          IN  /\ rules[i].base_dir = Dot
              /\ rules[i].is_negation = negated
              /\ rules[i].pattern = (IF negated THEN Tail(excludes[i]) ELSE excludes[i])

TwoIgnoreFilesRun ==
    fs = Tree(<<L_txt>>, "text", 0, "text", 0, "text", "text")

StoreAtWalk ==
    Walking =>
        /\ Range(gitignores) = {Parent(f) : f \in {g \in FilePaths : g[Len(g)] = N_gitignore}}
        /\ NoDuplicates(gitignores)
        /\ \A i, j \in 1..Len(gitignores) : Below(gitignores[i], gitignores[j]) => i < j
        /\ Len(loaded) = Len(gitignores)
        /\ \A n \in 1..Len(gitignores) : ReadInFileOrder(n)
        /\ ExcludesInOrderGiven
        /\ SubSeq(rules, Len(excludes) + 1, Len(rules)) = LoadedRules(Len(gitignores))
        /\ (TwoIgnoreFilesRun =>
               /\ should_ignore(rules, Q_other, FALSE)
               /\ ~should_ignore(rules, Join(<<N_src, N_important>>), FALSE))

AppendOnly == IsPrefix(rules, rules') /\ (Walking => rules' = rules)

\* C10: rule store order. When the walk starts the store is the exclude
\* patterns in the order given, the i-th rule being the i-th pattern with scope
\* ".", followed by the rules read from every discovered ignore file, a
\* directory's file before the files of its subdirectories and the lines of a
\* file in file order (all of them for a file that loaded, those read before
\* the failure for a file whose load failed); every step only appends to the
\* store and no step of the walk changes it. With root "*.txt" and src
\* "!i.txt", t.txt is ignored and src/i.txt is not, whatever the excludes.
C10_RuleStoreOrder == [](StoreAtWalk) /\ [][AppendOnly]_vars

\* the walk has started on the tree with the two ignore files and two
\* different exclude patterns, the second negated: four rules in the order
\* exclude 1, exclude 2, root file, src file
C10_Witness ==
    /\ pc = "walk"
    /\ TwoIgnoreFilesRun
    /\ Len(gitignores) = 2
    /\ excludes = <<L_docs, L_notGit>>
    /\ Len(rules) = 4
    /\ rules[1].pattern = L_docs /\ ~rules[1].is_negation
    /\ rules[2].pattern = N_git /\ rules[2].is_negation
    /\ rules[3].pattern = L_txt /\ rules[3].base_dir = Dot
    /\ rules[4].pattern = N_important /\ rules[4].base_dir = N_src

====
